---- MODULE Spec2Model ----
(***************************************************************************)
(* A model of joinTMX.py: ParseMap loads one TMX map file into a record,   *)
(* BigMap.putMap merges the record into the big map (tileset firstgid      *)
(* remapping, layer overlay, object concatenation).                        *)
(*                                                                         *)
(* Strings the program computes with are sequences of one-character        *)
(* strings (decimal numbers) or of path pieces (tileset sources), so that  *)
(* int(), str() and endswith() are computed and not assumed.               *)
(* A numpy array is a function from (row, column) pairs, 0-based; a        *)
(* layer's csv text is taken as the array numpy.genfromtxt reads from it.  *)
(* A dictionary is a function on its keys; the order in which Python hands *)
(* out the keys of sMap.tileSets is any order.                             *)
(***************************************************************************)
EXTENDS Integers, Sequences, FiniteSets, TLC

VARIABLES
    pc,         \* "idle": no map parsed yet; "parsed": sMap holds a fresh
                \* ParseMap; "joined": putMap(sMap) has returned
    tmx,        \* the content of the map file handed to ParseMap
    sMap,       \* the ParseMap instance (smallMap of main)
    layers,     \* BigMap.layers   {layer name: array}
    tileSets,   \* BigMap.tileSets {source path: firstgid as a string}
    objects,    \* BigMap.objects  list of object elements
    mapNumber,  \* main's counter of the maps put into the big map
    old         \* history: BigMap.layers and BigMap.tileSets as they were
                \* when the last putMap was entered

vars == <<pc, tmx, sMap, layers, tileSets, objects, mapNumber, old>>

----------------------------------------------------------------------------
(* Program constants *)

MAX_TILES == 512

TILE_SIZE == 32

CollisionName == "Collision"

CollisionFill == 2

CollisionSuffix == <<"collision.tsx">>

----------------------------------------------------------------------------
(* Bounds of the model *)

\* size of the big map, in tiles
BigWidth == 2

BigHeight == 1

\* size of every small map, in tiles
MapWidth == 1

MapHeight == 1

\* number of maps listed in the input file
MaxMaps == 2

\* tilesets declared by one map file
MaxTileSets == 2

\* objects declared by one map file
MaxObjects == 1

----------------------------------------------------------------------------
(* Python helpers *)

Digits == <<"0", "1", "2", "3", "4", "5", "6", "7", "8", "9">>

DigitVal(c) == (CHOOSE d \in 1..10 : Digits[d] = c) - 1

RECURSIVE NatOf(_)
NatOf(s) ==
    IF s = <<>> THEN 0
    ELSE 10 * NatOf(SubSeq(s, 1, Len(s) - 1)) + DigitVal(s[Len(s)])

\* int(s) of a decimal string
int(s) == IF Head(s) = "-" THEN 0 - NatOf(Tail(s)) ELSE NatOf(s)

RECURSIVE NatStr(_)
NatStr(n) ==
    IF n < 10 THEN <<Digits[n + 1]>>
    ELSE Append(NatStr(n \div 10), Digits[(n % 10) + 1])

\* str(n) of an integer
str(n) == IF n < 0 THEN <<"-">> \o NatStr(0 - n) ELSE NatStr(n)

\* s.endswith(suffix)
endswith(s, suffix) ==
    /\ Len(s) >= Len(suffix)
    /\ SubSeq(s, Len(s) - Len(suffix) + 1, Len(s)) = suffix

EmptyDict == [k \in {} |-> 0]

\* d[k] = v on a dictionary
Put(d, k, v) == [x \in DOMAIN d \cup {k} |-> IF x = k THEN v ELSE d[x]]

Max(S) == CHOOSE m \in S : \A n \in S : n <= m

Min(S) == CHOOSE m \in S : \A n \in S : m <= n

Abs(v) == IF v < 0 THEN 0 - v ELSE v

RECURSIVE Insert(_, _)
Insert(sorted, v) ==
    IF sorted = <<>> THEN <<v>>
    ELSE IF v <= Head(sorted) THEN <<v>> \o sorted
    ELSE <<Head(sorted)>> \o Insert(Tail(sorted), v)

\* list.sort() of the values of a finite set-indexed collection
RECURSIVE SortedValues(_, _)
SortedValues(d, keys) ==
    IF keys = {} THEN <<>>
    ELSE LET k == CHOOSE x \in keys : TRUE
         IN  Insert(SortedValues(d, keys \ {k}), int(d[k]))

\* list.index(v), 1-based
index(list, v) == Min({i \in 1..Len(list) : list[i] = v})

\* the orders in which a dictionary may hand out its keys
Orders(keys) ==
    {o \in [1..Cardinality(keys) -> keys] : \A i, j \in 1..Cardinality(keys) : o[i] = o[j] => i = j}

Cells(height, width) == (0..(height - 1)) \X (0..(width - 1))

\* numpy.zeros((height, width))
zeros(height, width) == [rc \in Cells(height, width) |-> 0]

----------------------------------------------------------------------------
(* The map files the loader is given *)

Sources ==
    { <<"a/", "collision.tsx">>, <<"b/", "collision.tsx">>,
      <<"grass.tsx">>, <<"water.tsx">> }

FirstGids == { <<"1">>, <<"3">> }

CellValues == {0, 2, 3, 513}

LayerNames == {CollisionName, "Ground"}

\* <tileset firstgid=.. source=..> elements, in increasing firstgid
TileSetLists ==
    UNION { { l \in [1..n -> [source : Sources, firstgid : FirstGids]] :
                \A i, j \in 1..n : i < j =>
                    /\ l[i].source # l[j].source
                    /\ int(l[i].firstgid) < int(l[j].firstgid) }
            : n \in 0..MaxTileSets }

\* the array a <layer>'s csv <data> denotes
DataOf(width, height) == [Cells(height, width) -> CellValues]

\* <layer name=..> elements of a map of the given size
LayerLists(width, height) ==
    {<<>>}
    \cup { <<[name |-> n, data |-> d]>> : n \in LayerNames, d \in DataOf(width, height) }
    \cup { <<[name |-> "Ground", data |-> d], [name |-> CollisionName, data |-> d]>> :
            d \in DataOf(width, height) }

\* <object> elements: x and y are decimal strings, the rest is passed through
ObjectLists ==
    UNION { [1..n -> [name : {"warp"},
                      x : { <<"7">>, <<"-", "4", "0">> },
                      y : { <<"0", "5">> }]]
            : n \in 0..MaxObjects }

\* the map files: a map carries tilesets and layers, or objects alone; its
\* tilesets have distinct firstgids >= 1, as Tiled writes them
MapFiles ==
    UNION { { [width |-> w, height |-> h, tileset |-> t, layer |-> l, object |-> o] :
                t \in TileSetLists, l \in LayerLists(w, h), o \in {<<>>} }
            \cup
            { [width |-> w, height |-> h, tileset |-> t, layer |-> l, object |-> o] :
                t \in {<<>>}, l \in {<<>>}, o \in ObjectLists }
            : w \in 1..MapWidth, h \in 1..MapHeight }

NoFile == [width |-> 0, height |-> 0, tileset |-> <<>>, layer |-> <<>>, object |-> <<>>]

----------------------------------------------------------------------------
(* ParseMap *)

RECURSIVE handleTileSets(_)
handleTileSets(tileset) ==
    IF tileset = <<>> THEN EmptyDict
    ELSE LET last == tileset[Len(tileset)]
         IN  Put(handleTileSets(SubSeq(tileset, 1, Len(tileset) - 1)),
                 last.source, last.firstgid)

RECURSIVE handleLayers(_)
handleLayers(layer) ==
    IF layer = <<>> THEN EmptyDict
    ELSE LET last == layer[Len(layer)]
         IN  Put(handleLayers(SubSeq(layer, 1, Len(layer) - 1)),
                 last.name, last.data)

\* handleObjects that adds the offset in tiles
handleObjectsInTiles(object, x, y) ==
    [i \in DOMAIN object |->
        [object[i] EXCEPT !.x = str(int(@) + x),
                          !.y = str(int(@) + y)]]

\* every object's x and y moved by the map's offset, 32 per tile
handleObjects(object, x, y) ==
    [i \in DOMAIN object |->
        [object[i] EXCEPT !.x = str(int(@) + TILE_SIZE * x),
                          !.y = str(int(@) + TILE_SIZE * y)]]

ParseMap(file, x, y) ==
    [x |-> x, y |-> y,
     width    |-> file.width,
     height   |-> file.height,
     layers   |-> handleLayers(file.layer),
     tileSets |-> handleTileSets(file.tileset),
     objects  |-> handleObjects(file.object, x, y)]

----------------------------------------------------------------------------
(* BigMap *)

NoMap == ParseMap(NoFile, 0, 0)

BigMapInit ==
    [layers   |-> Put(EmptyDict, CollisionName,
                      [rc \in Cells(BigHeight, BigWidth) |-> CollisionFill]),
     objects  |-> <<>>,
     tileSets |-> EmptyDict]

\* reMap that forgets the sign of the cells it compares
reMapAnySign(inArray, iVal, fVal, n) ==
    [rc \in DOMAIN inArray |->
        LET i == Abs(inArray[rc]) - iVal
        IN  IF i >= 0 /\ i < n THEN fVal + i ELSE inArray[rc]]

\* reMap that sends the whole span to fVal
reMapFlat(inArray, iVal, fVal, n) ==
    [rc \in DOMAIN inArray |->
        LET i == (0 - inArray[rc]) - iVal
        IN  IF i >= 0 /\ i < n THEN fVal ELSE inArray[rc]]

\* rule = {-(iVal+i): fVal+i for i in range(n)}, applied to the input array
reMap(inArray, iVal, fVal, n) ==
    [rc \in DOMAIN inArray |->
        LET i == (0 - inArray[rc]) - iVal
        IN  IF i >= 0 /\ i < n THEN fVal + i ELSE inArray[rc]]

\* "for layer in sMap.layers: sMap.layers[layer] = self.reMap(...)"
reMapAll(lay, iVal, fVal, n) ==
    [l \in DOMAIN lay |-> reMap(lay[l], iVal, fVal, n)]

\* largestGID that ignores the firstgids already handed out
largestGIDFirst(bigTS) == 1

\* the largest firstgid in the big map, 1 when it has no tileset
largestGID(bigTS) ==
    IF DOMAIN bigTS # {}
    THEN Max({int(bigTS[p]) : p \in DOMAIN bigTS})
    ELSE 1

\* nGIDs that stops one gid short of the next tileset
nGIDsShort(smallGID, smallFirstGID) ==
    LET pos == index(smallGID, smallFirstGID)
    IN  IF smallGID[pos] = smallGID[Len(smallGID)]
        THEN MAX_TILES
        ELSE (smallGID[pos + 1] - smallFirstGID) - 1

\* the number of gids remapped for the tileset whose firstgid is smallFirstGID:
\* MAX_TILES for the largest firstgid of the small map, else up to the next one
nGIDs(smallGID, smallFirstGID) ==
    LET pos == index(smallGID, smallFirstGID)
    IN  IF smallGID[pos] = smallGID[Len(smallGID)]
        THEN MAX_TILES
        ELSE smallGID[pos + 1] - smallFirstGID

\* inBigMap that takes the small map's firstgid over
inBigMapOverwrite(bigTS, lay, smallGID, tileSet, smallFirstGID) ==
    [tileSets |-> Put(bigTS, tileSet, str(smallFirstGID)),
     layers   |-> reMapAll(lay, smallFirstGID, smallFirstGID,
                           nGIDs(smallGID, smallFirstGID))]

\* the tileset is already in the big map
inBigMap(bigTS, lay, smallGID, tileSet, smallFirstGID) ==
    LET bigFirstGID == int(bigTS[tileSet])
    IN  IF smallFirstGID = bigFirstGID
        THEN [tileSets |-> bigTS, layers |-> lay]
        ELSE [tileSets |-> bigTS,
              layers   |-> reMapAll(lay, smallFirstGID, bigFirstGID,
                                    nGIDs(smallGID, smallFirstGID))]

\* the tileset is not yet in the big map; the table is written after the
\* remap when the firstgid is the small map's largest, and inside the loop
\* over the layers when it is not
notInBigMap(bigTS, lay, smallGID, tileSet, smallFirstGID) ==
    LET largest   == IF endswith(tileSet, CollisionSuffix)
                     THEN (0 - MAX_TILES) + 1
                     ELSE largestGID(bigTS)
        pos       == index(smallGID, smallFirstGID)
        isLargest == smallGID[pos] = smallGID[Len(smallGID)]
        added     == Put(bigTS, tileSet, str(largest + MAX_TILES))
    IN  [tileSets |-> IF isLargest \/ DOMAIN lay # {} THEN added ELSE bigTS,
         layers   |-> reMapAll(lay, smallFirstGID, largest + MAX_TILES,
                               nGIDs(smallGID, smallFirstGID))]

\* the body of "for tileSet in sMap.tileSets", on the big map's table bigTS
\* and the small map's layers lay
TileSetStep(bigTS, lay, small, smallGID, tileSet) ==
    LET smallFirstGID == int(small[tileSet])
    IN  IF tileSet \in DOMAIN bigTS
        THEN inBigMap(bigTS, lay, smallGID, tileSet, smallFirstGID)
        ELSE notInBigMap(bigTS, lay, smallGID, tileSet, smallFirstGID)

RECURSIVE TileSetLoop(_, _, _, _, _)
TileSetLoop(bigTS, lay, small, smallGID, order) ==
    IF order = <<>> THEN [tileSets |-> bigTS, layers |-> lay]
    ELSE LET s == TileSetStep(bigTS, lay, small, smallGID, Head(order))
         IN  TileSetLoop(s.tileSets, s.layers, small, smallGID, Tail(order))

\* Overlay that takes an empty cell of the small map as transparent
OverlayBlend(big, small, x, y) ==
    [rc \in DOMAIN big |->
        IF <<rc[1] - y, rc[2] - x>> \in DOMAIN small
           /\ small[<<rc[1] - y, rc[2] - x>>] # 0
        THEN Abs(small[<<rc[1] - y, rc[2] - x>>])
        ELSE big[rc]]

\* Overlay that puts the small map at the origin
OverlayAtOrigin(big, small, x, y) ==
    [rc \in DOMAIN big |->
        IF rc \in DOMAIN small THEN Abs(small[rc]) ELSE big[rc]]

\* big[y : y+height, x : x+width] = numpy.absolute(small)
Overlay(big, small, x, y) ==
    [rc \in DOMAIN big |->
        IF <<rc[1] - y, rc[2] - x>> \in DOMAIN small
        THEN Abs(small[<<rc[1] - y, rc[2] - x>>])
        ELSE big[rc]]

\* the layers of the big map after the overlay loop
PutLayers(bigLayers, lay, x, y) ==
    [l \in DOMAIN bigLayers \cup DOMAIN lay |->
        IF l \in DOMAIN lay
        THEN Overlay(IF l \in DOMAIN bigLayers THEN bigLayers[l]
                     ELSE zeros(BigHeight, BigWidth),
                     lay[l], x, y)
        ELSE bigLayers[l]]

\* putMap that works on a copy of the small map's layers
putMapOnCopy(big, small, order) ==
    LET smallGID == SortedValues(small.tileSets, DOMAIN small.tileSets)
        negated  == [l \in DOMAIN small.layers |->
                        [rc \in DOMAIN small.layers[l] |-> 0 - small.layers[l][rc]]]
        done     == TileSetLoop(big.tileSets, negated, small.tileSets, smallGID, order)
    IN  [layers   |-> PutLayers(big.layers, done.layers, small.x, small.y),
         tileSets |-> done.tileSets,
         objects  |-> big.objects \o small.objects,
         sMap     |-> small]

\* putMap(sMap), the small map's tilesets taken in the given order
putMap(big, small, order) ==
    LET smallGID == SortedValues(small.tileSets, DOMAIN small.tileSets)
        negated  == [l \in DOMAIN small.layers |->
                        [rc \in DOMAIN small.layers[l] |-> 0 - small.layers[l][rc]]]
        done     == TileSetLoop(big.tileSets, negated, small.tileSets, smallGID, order)
    IN  [layers   |-> PutLayers(big.layers, done.layers, small.x, small.y),
         tileSets |-> done.tileSets,
         objects  |-> big.objects \o small.objects,
         sMap     |-> [small EXCEPT !.layers = done.layers]]

----------------------------------------------------------------------------
(* The program *)

Init ==
    /\ pc = "idle"
    /\ tmx = NoFile
    /\ sMap = NoMap
    /\ layers = BigMapInit.layers
    /\ tileSets = BigMapInit.tileSets
    /\ objects = BigMapInit.objects
    /\ mapNumber = 0
    /\ old = [layers |-> BigMapInit.layers, tileSets |-> BigMapInit.tileSets]

\* maps.append(ParseMap(file, x, y)), the map lying inside the big map (numpy
\* raises on a map that does not fit, and the run ends there)
Load(file, x, y) ==
    /\ pc \in {"idle", "joined"}
    /\ mapNumber < MaxMaps
    /\ pc' = "parsed"
    /\ tmx' = file
    /\ sMap' = ParseMap(file, x, y)
    /\ old' = [layers |-> layers, tileSets |-> tileSets]
    /\ UNCHANGED <<layers, tileSets, objects, mapNumber>>

\* bigMap.putMap(smallMap)
PutMap(order) ==
    /\ pc = "parsed"
    /\ LET r == putMap([layers |-> layers, tileSets |-> tileSets, objects |-> objects],
                       sMap, order)
       IN  /\ layers' = r.layers
           /\ tileSets' = r.tileSets
           /\ objects' = r.objects
           /\ sMap' = r.sMap
    /\ old' = [layers |-> layers, tileSets |-> tileSets]
    /\ mapNumber' = mapNumber + 1
    /\ pc' = "joined"
    /\ UNCHANGED tmx

Next ==
    \/ \E file \in MapFiles :
         \E x \in 0..(BigWidth - file.width), y \in 0..(BigHeight - file.height) :
            Load(file, x, y)
    \/ \E order \in Orders(DOMAIN sMap.tileSets) : PutMap(order)

Spec == Init /\ [][Next]_vars

----------------------------------------------------------------------------
(* Vocabulary of the properties *)

\* the arrays the map file holds, before putMap touches the record's
FileLayers == handleLayers(tmx.layer)

\* where cell rc of the small map lies in the big map
Placed(rc) == <<rc[1] + sMap.y, rc[2] + sMap.x>>

LocalFirstId(t) == int(sMap.tileSets[t])

\* v belongs to tileset t in the local numbering of the small map
InLocalSpan(t, v) ==
    LET higher == {g \in {LocalFirstId(u) : u \in DOMAIN sMap.tileSets} : g > LocalFirstId(t)}
    IN  /\ LocalFirstId(t) <= v
        /\ IF higher = {} THEN v < LocalFirstId(t) + 512 ELSE v < Min(higher)

\* every nonzero cell of the map file belongs to one of its tilesets
AllCellsOwned ==
    \A l \in DOMAIN FileLayers : \A rc \in DOMAIN FileLayers[l] :
        FileLayers[l][rc] # 0 =>
            \E t \in DOMAIN sMap.tileSets : InLocalSpan(t, FileLayers[l][rc])

IsCollisionPath(p) == endswith(p, <<"collision.tsx">>)

SpansDisjoint(p, q) ==
    \/ int(tileSets[p]) + 512 - 1 < int(tileSets[q])
    \/ int(tileSets[q]) + 512 - 1 < int(tileSets[p])

----------------------------------------------------------------------------
(* C1 *)

\* C1 as stated: any two entries of the big map's tileset table with distinct
\* paths have non-overlapping spans [firstId, firstId + 511].
C1_AllSpansDisjoint ==
    \A p, q \in DOMAIN tileSets : p # q => SpansDisjoint(p, q)

\* C1, amended: any two entries with distinct paths that do not both end in
\* "collision.tsx" have non-overlapping spans [firstId, firstId + 511].
C1_SpansDisjoint ==
    \A p, q \in DOMAIN tileSets :
        (p # q /\ ~(IsCollisionPath(p) /\ IsCollisionPath(q))) => SpansDisjoint(p, q)

\* a table holding two ordinary tilesets and a collision tileset
C1_Witness ==
    /\ pc = "joined"
    /\ \E p, q, c \in DOMAIN tileSets :
        /\ p # q /\ ~IsCollisionPath(p) /\ ~IsCollisionPath(q)
        /\ IsCollisionPath(c)

----------------------------------------------------------------------------
(* C2 *)

\* C2: after putMap, a cell of the map file that held 0 is placed as 0, and a
\* cell that held v inside the local span of tileset t is placed as
\* globalFirstId(t) + (v - localFirstId(t)), globalFirstId(t) being t's entry
\* in the big map's table after the merge.
C2_CellsRemapped ==
    pc = "joined" =>
        \A l \in DOMAIN FileLayers : \A rc \in DOMAIN FileLayers[l] :
            LET v == FileLayers[l][rc]
            IN  /\ v = 0 => layers[l][Placed(rc)] = 0
                /\ \A t \in DOMAIN sMap.tileSets :
                      InLocalSpan(t, v) =>
                          /\ t \in DOMAIN tileSets
                          /\ layers[l][Placed(rc)] = int(tileSets[t]) + (v - LocalFirstId(t))

\* a map with two tilesets put second: a cell past the first gid of a tileset
\* that was in the table under another firstgid, and a cell of a tileset new
\* to the table
C2_Witness ==
    /\ pc = "joined"
    /\ mapNumber = 2
    /\ \E l \in DOMAIN FileLayers : \E rc \in DOMAIN FileLayers[l] :
       \E t, u \in DOMAIN sMap.tileSets :
          /\ t # u
          /\ InLocalSpan(t, FileLayers[l][rc])
          /\ FileLayers[l][rc] > LocalFirstId(t)
          /\ t \in DOMAIN old.tileSets
          /\ int(old.tileSets[t]) # LocalFirstId(t)
          /\ u \notin DOMAIN old.tileSets

----------------------------------------------------------------------------
(* C3 *)

\* C3: an entry of the big map's table is never changed by putMap, and the
\* cells of a tileset that was in the table before the merge are placed from
\* the firstId the table held before the merge.
C3_EntriesKept ==
    /\ \A p \in DOMAIN old.tileSets :
          p \in DOMAIN tileSets /\ tileSets[p] = old.tileSets[p]
    /\ pc = "joined" =>
          \A l \in DOMAIN FileLayers : \A rc \in DOMAIN FileLayers[l] :
          \A t \in DOMAIN sMap.tileSets \cap DOMAIN old.tileSets :
              InLocalSpan(t, FileLayers[l][rc]) =>
                  layers[l][Placed(rc)] =
                      int(old.tileSets[t]) + (FileLayers[l][rc] - LocalFirstId(t))

\* the second map names a tileset of the first under another local firstgid
\* and has a cell of it
C3_Witness ==
    /\ pc = "joined"
    /\ mapNumber = 2
    /\ \E t \in DOMAIN sMap.tileSets \cap DOMAIN old.tileSets :
          /\ int(old.tileSets[t]) # LocalFirstId(t)
          /\ \E l \in DOMAIN FileLayers : \E rc \in DOMAIN FileLayers[l] :
                InLocalSpan(t, FileLayers[l][rc])

----------------------------------------------------------------------------
(* C4 *)

\* C4: after putMap, every cell of the big map that the small map covers, in
\* every layer the small map carries, holds the absolute value of the small
\* map's remapped cell, whatever the cell held before.
C4_LastWriteWins ==
    pc = "joined" =>
        \A l \in DOMAIN sMap.layers : \A rc \in DOMAIN sMap.layers[l] :
            /\ l \in DOMAIN layers
            /\ layers[l][Placed(rc)] = Abs(sMap.layers[l][rc])

\* the second map writes a cell of a layer the first map had written with
\* another nonzero value
C4_Witness ==
    /\ pc = "joined"
    /\ mapNumber = 2
    /\ "Ground" \in DOMAIN sMap.layers
    /\ "Ground" \in DOMAIN old.layers
    /\ \E rc \in DOMAIN sMap.layers["Ground"] :
          /\ old.layers["Ground"][Placed(rc)] # 0
          /\ layers["Ground"][Placed(rc)] # 0
          /\ layers["Ground"][Placed(rc)] # old.layers["Ground"][Placed(rc)]

----------------------------------------------------------------------------
(* C5 *)

\* C5 as stated: a tileset of the small map whose path ends in
\* "collision.tsx" and that was not in the big map's table has, after putMap,
\* the entry 1 in the table.
C5_CollisionGetsOne ==
    pc = "joined" =>
        \A t \in DOMAIN sMap.tileSets :
            (IsCollisionPath(t) /\ t \notin DOMAIN old.tileSets) =>
                t \in DOMAIN tileSets /\ int(tileSets[t]) = 1

----------------------------------------------------------------------------
(* C6 *)

\* C6: before any merge the big map holds the one layer "Collision", all 2;
\* one putMap changes only the cells inside the small map's rectangle, in the
\* layers the small map carries, and a layer it creates is 0 elsewhere.
C6_OnlyRectangleChanged ==
    /\ mapNumber = 0 =>
          /\ DOMAIN layers = {"Collision"}
          /\ \A rc \in DOMAIN layers["Collision"] : layers["Collision"][rc] = 2
    /\ DOMAIN layers = DOMAIN old.layers \cup (IF pc = "joined" THEN DOMAIN sMap.layers ELSE {})
    /\ \A l \in DOMAIN layers : \A rc \in DOMAIN layers[l] :
          (\/ pc # "joined"
           \/ l \notin DOMAIN sMap.layers
           \/ rc[1] < sMap.y \/ rc[1] >= sMap.y + sMap.height
           \/ rc[2] < sMap.x \/ rc[2] >= sMap.x + sMap.width)
          => layers[l][rc] = (IF l \in DOMAIN old.layers THEN old.layers[l][rc] ELSE 0)

\* a map put away from the origin creates a layer and writes a nonzero cell
C6_Witness ==
    /\ pc = "joined"
    /\ sMap.x > 0
    /\ "Ground" \in DOMAIN sMap.layers
    /\ "Ground" \notin DOMAIN old.layers
    /\ \E rc \in DOMAIN sMap.layers["Ground"] : layers["Ground"][Placed(rc)] # 0
    /\ \E rc \in DOMAIN layers["Ground"] : layers["Ground"][rc] = 0

----------------------------------------------------------------------------
(* C7 *)

----------------------------------------------------------------------------
(* C8 *)

\* C8: reMap with iVal >= 1 leaves every non-negative cell as it is, so it
\* returns an array of non-negative cells unchanged.
C8_ReMapKeepsNonNegative ==
    \A l \in DOMAIN sMap.layers :
    \A iVal \in {1, 3, 513}, fVal \in {1, 513, 1025}, n \in {0, 2, 512} :
        LET inArray  == sMap.layers[l]
            outArray == reMap(inArray, iVal, fVal, n)
        IN  /\ \A rc \in DOMAIN inArray : inArray[rc] >= 0 => outArray[rc] = inArray[rc]
            /\ (\A rc \in DOMAIN inArray : inArray[rc] >= 0) => outArray = inArray

\* the record's array after putMap holds a remapped, positive cell
C8_Witness ==
    /\ pc = "joined"
    /\ \E l \in DOMAIN sMap.layers :
          /\ \A rc \in DOMAIN sMap.layers[l] : sMap.layers[l][rc] >= 0
          /\ \E rc \in DOMAIN sMap.layers[l] :
                sMap.layers[l][rc] > 0 /\ sMap.layers[l][rc] # FileLayers[l][rc]

----------------------------------------------------------------------------
(* C9 *)

\* C9 as stated: when every nonzero cell of the map belongs to one of its
\* tilesets, no cell of the record is negative after the loop over the
\* tilesets (the record's arrays after putMap are the arrays the loop
\* leaves, the absolute value being taken on a copy).
C9_NoNegativeCell ==
    (pc = "joined" /\ AllCellsOwned) =>
        \A l \in DOMAIN sMap.layers : \A rc \in DOMAIN sMap.layers[l] :
            sMap.layers[l][rc] >= 0

\* C9, amended: under the same condition, the only cells still negative
\* after the loop are those of a tileset that was already in the big map's
\* table with the firstId it has in the small map; such a cell holds the
\* negation of its value in the file.
C9_NegativeOnlyIfSameFirstId ==
    (pc = "joined" /\ AllCellsOwned) =>
        \A l \in DOMAIN sMap.layers : \A rc \in DOMAIN sMap.layers[l] :
            sMap.layers[l][rc] < 0 =>
                /\ sMap.layers[l][rc] = 0 - FileLayers[l][rc]
                /\ \E t \in DOMAIN sMap.tileSets \cap DOMAIN old.tileSets :
                      /\ InLocalSpan(t, FileLayers[l][rc])
                      /\ int(old.tileSets[t]) = LocalFirstId(t)

\* the second map has all its cells owned and a nonzero cell of a tileset
\* the first map had put in the table under the same firstgid
C9_Witness ==
    /\ pc = "joined"
    /\ mapNumber = 2
    /\ AllCellsOwned
    /\ \E l \in DOMAIN sMap.layers : \E rc \in DOMAIN sMap.layers[l] :
       \E t \in DOMAIN sMap.tileSets \cap DOMAIN old.tileSets :
          /\ FileLayers[l][rc] # 0
          /\ InLocalSpan(t, FileLayers[l][rc])
          /\ int(old.tileSets[t]) = LocalFirstId(t)
          /\ Cardinality(DOMAIN sMap.tileSets) = 2

----------------------------------------------------------------------------
(* C10 *)

\* C10 as stated: after putMap the record's arrays hold the values they
\* held before the call.
C10_RecordUnchanged ==
    pc = "joined" => sMap.layers = FileLayers

\* C10, amended: putMap replaces the record's arrays by the negated and
\* remapped ones: after putMap a cell that held 0 holds 0, a negative cell
\* holds the negation of its value before the call, and the absolute value
\* of every cell is the value placed in the big map; the record keeps its
\* layers and their shapes.
C10_RecordRemapped ==
    pc = "joined" =>
        /\ DOMAIN sMap.layers = DOMAIN FileLayers
        /\ \A l \in DOMAIN FileLayers :
              /\ DOMAIN sMap.layers[l] = DOMAIN FileLayers[l]
              /\ \A rc \in DOMAIN FileLayers[l] :
                    /\ FileLayers[l][rc] = 0 => sMap.layers[l][rc] = 0
                    /\ sMap.layers[l][rc] < 0 => sMap.layers[l][rc] = 0 - FileLayers[l][rc]
                    /\ Abs(sMap.layers[l][rc]) = layers[l][Placed(rc)]

\* the record holds a cell that putMap remapped to another value
C10_Witness ==
    /\ pc = "joined"
    /\ \E l \in DOMAIN FileLayers : \E rc \in DOMAIN FileLayers[l] :
          /\ sMap.layers[l][rc] > 0
          /\ sMap.layers[l][rc] # FileLayers[l][rc]
          /\ layers[l][Placed(rc)] = sMap.layers[l][rc]

----------------------------------------------------------------------------
(* C11 *)

\* C11 as stated: after putMap every tileset path of the small map's table
\* has an entry in the big map's table, the one it had before the merge when
\* it had one; also for a map with no layers, and for a tileset that is not
\* the largest local firstgid of the map.
C11_EveryTileSetRecorded ==
    pc = "joined" =>
        \A t \in DOMAIN sMap.tileSets :
            /\ t \in DOMAIN tileSets
            /\ t \in DOMAIN old.tileSets => tileSets[t] = old.tileSets[t]

====
